---- MODULE Spec2Model ----
(***************************************************************************)
(* Model of the concurrent resolution engine of gochinadns (src/dns.go):   *)
(* one request served by Server.Serve, the two lookupInServers            *)
(* coordinators with their doLookup tasks, the supervisory goroutine that  *)
(* joins the two child contexts, and the processReply /                    *)
(* processUntrustedAnswer / processTrustedAnswer classifier.               *)
(*                                                                         *)
(* A Go select is one step that is enabled when at least one of its cases  *)
(* can proceed and that takes any one of the cases that can proceed.       *)
(* Time is abstracted: the stagger ticker may deliver a tick at any        *)
(* moment, and a lookup may return at any moment.                          *)
(***************************************************************************)
EXTENDS Integers, Sequences, FiniteSets, TLC

\* Largest number of configured resolvers explored when both lists are
\* used: len(s.TrustedServers) + len(s.UntrustedServers) <= MaxServers.
MaxServers == 2

\* Largest length of a resolver list explored when the other list is empty.
MaxAlone == 3

MaxList == IF MaxAlone > MaxServers THEN MaxAlone ELSE MaxServers

Classes == {"trusted", "untrusted"}

Contexts == {"ctx", "uctx", "tctx"}

\* ---------------------------------------------------------------------
\* Messages and the classification capabilities
\* ---------------------------------------------------------------------

NoIP == "-"

\* s.IPBlacklist.Contains(ip) and s.ChinaCIDR.Contains(ip) over the
\* addresses the modelled resolvers answer with.
IPs == {"36.0.0.1", "36.6.6.6", "1.2.3.4", "6.6.6.6"}

IPBlacklist == {"36.6.6.6", "6.6.6.6"}

ChinaCIDR == {"36.0.0.1", "36.6.6.6"}

A(ip) == [rrtype |-> "A", ip |-> ip]

AAAA(ip) == [rrtype |-> "AAAA", ip |-> ip]

CNAME == [rrtype |-> "CNAME", ip |-> NoIP]

MX == [rrtype |-> "MX", ip |-> NoIP]

\* Longest answer section given to processReply in ReplySpec.
MaxAnswers == 3

\* The resource records an answer section is made of: A and AAAA carry an
\* address, CNAME and MX (any other type) carry none.
Records == {A(ip) : ip \in IPs} \cup {AAAA("36.0.0.1"), CNAME, MX}

\* Every answer section of up to MaxAnswers records.
AnswerSections == UNION {[1..n -> Records] : n \in 0..MaxAnswers}

\* Answer sections a LookupFunc returns on success in the request model: one
\* without an address and one for each address.  (ReplySpec below runs
\* processReply over every answer section of up to MaxAnswers records.)
UpstreamAnswers == {<<CNAME>>} \cup {<<A(ip)>> : ip \in IPs}

\* The nil *dns.Msg.
NoMsg == [from |-> "nil", Answer |-> <<>>, Compress |-> FALSE]

\* new(dns.Msg).SetReply(req): an empty reply mirroring the request.
SetReply == [from |-> "SetReply", Answer |-> <<>>, Compress |-> FALSE]

\* The reply of a successful lookup against a resolver of class c.
UpstreamMsg(c, ans) == [from |-> c, Answer |-> ans, Compress |-> FALSE]

VARIABLES
    s,        \* the Server configuration and what its matchers say of qName
    pc,       \* position of Serve
    done,     \* done[x]: context x is canceled
    result,   \* the two result channels of capacity 1
    co,       \* per class: position, loop index and queryNext of lookupInServers
    task,     \* per class and server: position of the doLookup goroutine
    sup,      \* position of the supervisory goroutine
    cur,      \* the reply held by the classifier while it waits
    other,    \* the channel the waiting classifier receives from ("nil": none)
    reply,    \* Serve's local variable reply
    written,  \* the messages handed to w.WriteMsg, in order
    log,      \* history: what Serve and the classifier did, in order
    placed,   \* history: per class, the sends on the result channel that succeeded
    run       \* the locals of runUntilCanceled (cmd/chinadns/main.go)

vars == <<s, pc, done, result, co, task, sup, cur, other, reply, written, log,
          placed, run>>

Servers(c) == IF c = "trusted" THEN s.TrustedServers ELSE s.UntrustedServers

CtxOf(c) == IF c = "trusted" THEN "tctx" ELSE "uctx"

OtherClass(c) == IF c = "trusted" THEN "untrusted" ELSE "trusted"

\* cancel of a context.WithCancel context: the context and its children.
Cancel(x) ==
    IF x = "ctx" THEN [y \in Contexts |-> TRUE] ELSE [done EXCEPT ![x] = TRUE]

\* ---------------------------------------------------------------------
\* The classifier (pure part)
\* ---------------------------------------------------------------------

\* The loop of processReply: the address of the first A/AAAA record that
\* is preceded by CNAME records only, NoIP when there is none.
RECURSIVE scanAnswer(_, _)
scanAnswer(ans, i) ==
    IF i > Len(ans) THEN NoIP
    ELSE IF ans[i].rrtype \in {"A", "AAAA"} THEN ans[i].ip
    ELSE IF ans[i].rrtype = "CNAME"
         THEN IF i < Len(ans) THEN scanAnswer(ans, i + 1) ELSE NoIP
    ELSE NoIP

\* Verdict of processUntrustedAnswer before its select: wait = the answer
\* is suspect; lookups = the capabilities consulted, in order.
processUntrustedAnswerMutantNoBlacklist(ip) ==
    IF ip \in ChinaCIDR
    THEN [wait |-> FALSE, lookups |-> <<"IPBlacklist", "ChinaCIDR">>]
    ELSE [wait |-> TRUE, lookups |-> <<"IPBlacklist", "ChinaCIDR">>]

processUntrustedAnswer(ip) ==
    IF ip \in IPBlacklist
    THEN [wait |-> TRUE, lookups |-> <<"IPBlacklist">>]
    ELSE IF ip \in ChinaCIDR
         THEN [wait |-> FALSE, lookups |-> <<"IPBlacklist", "ChinaCIDR">>]
         ELSE [wait |-> TRUE, lookups |-> <<"IPBlacklist", "ChinaCIDR">>]

\* Verdict of processTrustedAnswer before its select.
processTrustedAnswerMutantAlwaysBidirectional(ip) ==
    IF ip \in IPBlacklist
    THEN [wait |-> TRUE, lookups |-> <<"IPBlacklist">>]
    ELSE IF ip \notin ChinaCIDR
         THEN [wait |-> FALSE, lookups |-> <<"IPBlacklist", "ChinaCIDR">>]
         ELSE [wait |-> TRUE, lookups |-> <<"IPBlacklist", "ChinaCIDR">>]

processTrustedAnswerMutantNeverBidirectional(ip) ==
    IF ip \in IPBlacklist
    THEN [wait |-> TRUE, lookups |-> <<"IPBlacklist">>]
    ELSE [wait |-> FALSE, lookups |-> <<"IPBlacklist">>]

processTrustedAnswer(ip) ==
    IF ip \in IPBlacklist
    THEN [wait |-> TRUE, lookups |-> <<"IPBlacklist">>]
    ELSE IF ~s.Bidirectional
         THEN [wait |-> FALSE, lookups |-> <<"IPBlacklist">>]
         ELSE IF ip \notin ChinaCIDR
              THEN [wait |-> FALSE, lookups |-> <<"IPBlacklist", "ChinaCIDR">>]
              ELSE [wait |-> TRUE, lookups |-> <<"IPBlacklist", "ChinaCIDR">>]

\* processReply up to the select of the process function it calls:
\* classified = process was called; wait = process reached its select.
processReplyMutantAnyAddress(rep, process) ==
    LET ans == rep.Answer
        addr == {i \in 1..Len(ans) : ans[i].rrtype \in {"A", "AAAA"}}
        ip == IF addr = {} THEN NoIP
              ELSE ans[CHOOSE i \in addr : \A j \in addr : i <= j].ip
        verdict == IF process = "processUntrustedAnswer"
                   THEN processUntrustedAnswer(ip)
                   ELSE processTrustedAnswer(ip)
    IN  IF ip = NoIP
        THEN [classified |-> FALSE, ip |-> NoIP, wait |-> FALSE, lookups |-> <<>>]
        ELSE [classified |-> TRUE, ip |-> ip,
              wait |-> verdict.wait, lookups |-> verdict.lookups]

processReply(rep, process) ==
    LET ip == scanAnswer(rep.Answer, 1)
        verdict == IF process = "processUntrustedAnswer"
                   THEN processUntrustedAnswer(ip)
                   ELSE processTrustedAnswer(ip)
    IN  IF ip = NoIP
        THEN [classified |-> FALSE, ip |-> NoIP, wait |-> FALSE, lookups |-> <<>>]
        ELSE [classified |-> TRUE, ip |-> ip,
              wait |-> verdict.wait, lookups |-> verdict.lookups]

\* processReply of a reply of class c (s.processUntrustedAnswer for the
\* untrusted channel, s.processTrustedAnswer for the trusted one).
Classify(c, rep) ==
    IF c = "untrusted" THEN processReply(rep, "processUntrustedAnswer")
    ELSE processReply(rep, "processTrustedAnswer")

\* The history entries of receiving rep of class c with fallback channel
\* oth and classifying it.
RecvLog(c, rep, oth) ==
    <<[ev |-> "recv", from |-> c, ip |-> Classify(c, rep).ip,
       classified |-> Classify(c, rep).classified,
       wait |-> Classify(c, rep).wait,
       lookups |-> Classify(c, rep).lookups, other |-> oth]>>

CtxDoneLog ==
    <<[ev |-> "ctxdone", from |-> "ctx", ip |-> NoIP, classified |-> FALSE,
       wait |-> FALSE, lookups |-> <<>>, other |-> "nil"]>>

\* runUntilCanceled has not been called.
NotRunning == [pc |-> "idle", gap |-> 0, err |-> "none", wait |-> 0, prev |-> 0]

\* ---------------------------------------------------------------------
\* Initial state
\* ---------------------------------------------------------------------

Init ==
    /\ s \in [DomainBlacklist : BOOLEAN, DomainPolluted : BOOLEAN,
              Bidirectional : BOOLEAN,
              TrustedServers : 0..MaxList, UntrustedServers : 0..MaxList]
    /\ \/ s.TrustedServers + s.UntrustedServers <= MaxServers
       \/ s.UntrustedServers = 0 /\ s.TrustedServers <= MaxAlone
       \/ s.TrustedServers = 0 /\ s.UntrustedServers <= MaxAlone
    /\ pc = "start"
    /\ done = [x \in Contexts |-> FALSE]
    /\ result = [c \in Classes |-> <<>>]
    /\ co = [c \in Classes |-> [pc |-> "idle", i |-> 0, queryNext |-> 0]]
    /\ task = [c \in Classes |-> [k \in 1..Servers(c) |-> "none"]]
    /\ sup = "idle"
    /\ cur = NoMsg
    /\ other = "nil"
    /\ reply = NoMsg
    /\ written = <<>>
    /\ log = <<>>
    /\ placed = [c \in Classes |-> 0]
    /\ run = NotRunning

\* ---------------------------------------------------------------------
\* Server.Serve
\* ---------------------------------------------------------------------

\* if s.DomainBlacklist.Contain(qName) { ...; _ = w.WriteMsg(reply); return }
ServeBlacklistedMutantFallThrough ==
    /\ pc = "start"
    /\ s.DomainBlacklist
    /\ reply' = SetReply
    /\ written' = Append(written, SetReply)
    /\ pc' = "cancel"
    /\ UNCHANGED <<s, placed, run, done, result, co, task, sup, cur, other, log>>

ServeBlacklisted ==
    /\ pc = "start"
    /\ s.DomainBlacklist
    /\ reply' = SetReply
    /\ written' = Append(written, SetReply)
    /\ pc' = "done"
    /\ UNCHANGED <<s, placed, run, done, result, co, task, sup, cur, other, log>>

\* The three contexts, the supervisory goroutine, the two channels and
\* go lookupInServers(tctx, tcancel, trusted, ...).
ServeSetupMutantIgnoreBlacklist ==
    /\ pc = "start"
    /\ sup' = "waitU"
    /\ co' = [co EXCEPT !["trusted"].pc = "entry"]
    /\ pc' = "spawn"
    /\ UNCHANGED <<s, placed, run, done, result, task, cur, other, reply, written, log>>

ServeSetup ==
    /\ pc = "start"
    /\ ~s.DomainBlacklist
    /\ sup' = "waitU"
    /\ co' = [co EXCEPT !["trusted"].pc = "entry"]
    /\ pc' = "spawn"
    /\ UNCHANGED <<s, placed, run, done, result, task, cur, other, reply, written, log>>

\* if !s.DomainPolluted.Contain(qName) { go lookupInServers(uctx, ...) }
ServeStartUntrustedMutantIgnorePolluted ==
    /\ pc = "spawn"
    /\ co' = [co EXCEPT !["untrusted"].pc = "entry"]
    /\ pc' = "select"
    /\ UNCHANGED <<s, placed, run, done, result, task, sup, cur, other, reply, written, log>>

ServeStartUntrusted ==
    /\ pc = "spawn"
    /\ ~s.DomainPolluted
    /\ co' = [co EXCEPT !["untrusted"].pc = "entry"]
    /\ pc' = "select"
    /\ UNCHANGED <<s, placed, run, done, result, task, sup, cur, other, reply, written, log>>

\* else { ucancel() }
ServeSkipUntrusted ==
    /\ pc = "spawn"
    /\ s.DomainPolluted
    /\ done' = Cancel("uctx")
    /\ pc' = "select"
    /\ UNCHANGED <<s, placed, run, result, co, task, sup, cur, other, reply, written, log>>

\* case rep := <-untrusted / case rep := <-trusted of Serve's select, and
\* the processReply call up to the point where it returns or blocks.
ServeRecv(c) ==
    /\ pc = "select"
    /\ result[c] # <<>>
    /\ LET rep == Head(result[c])
       IN  /\ result' = [result EXCEPT ![c] = Tail(@)]
           /\ log' = log \o RecvLog(c, rep, OtherClass(c))
           /\ IF Classify(c, rep).wait
              THEN /\ cur' = rep
                   /\ other' = OtherClass(c)
                   /\ pc' = "wait"
                   /\ UNCHANGED reply
              ELSE /\ reply' = rep
                   /\ pc' = "cancel"
                   /\ UNCHANGED <<cur, other>>
    /\ UNCHANGED <<s, placed, run, done, co, task, sup, written>>

\* case <-ctx.Done() of Serve's select.
ServeCtxDone ==
    /\ pc = "select"
    /\ done["ctx"]
    /\ log' = log \o CtxDoneLog
    /\ pc' = "cancel"
    /\ UNCHANGED <<s, placed, run, done, result, co, task, sup, cur, other, reply, written>>

\* case rep := <-trusted (resp. <-untrusted) of the select of
\* processUntrustedAnswer (resp. processTrustedAnswer): the reply of the
\* other class is classified with a nil fallback channel.
ClassifierRecvMutantKeepsFallback ==
    /\ pc = "wait"
    /\ other # "nil"
    /\ result[other] # <<>>
    /\ LET rep == Head(result[other])
       IN  /\ result' = [result EXCEPT ![other] = Tail(@)]
           /\ log' = log \o RecvLog(other, rep, OtherClass(other))
           /\ IF Classify(other, rep).wait
              THEN /\ cur' = rep
                   /\ other' = OtherClass(other)
                   /\ pc' = "wait"
                   /\ UNCHANGED reply
              ELSE /\ reply' = rep
                   /\ pc' = "cancel"
                   /\ UNCHANGED <<cur, other>>
    /\ UNCHANGED <<s, placed, run, done, co, task, sup, written>>

ClassifierRecv ==
    /\ pc = "wait"
    /\ other # "nil"
    /\ result[other] # <<>>
    /\ LET rep == Head(result[other])
       IN  /\ result' = [result EXCEPT ![other] = Tail(@)]
           /\ log' = log \o RecvLog(other, rep, "nil")
           /\ IF Classify(other, rep).wait
              THEN /\ cur' = rep
                   /\ other' = "nil"
                   /\ pc' = "wait"
                   /\ UNCHANGED reply
              ELSE /\ reply' = rep
                   /\ pc' = "cancel"
                   /\ UNCHANGED <<cur, other>>
    /\ UNCHANGED <<s, placed, run, done, co, task, sup, written>>

\* case <-ctx.Done() of the classifier's select: the reply it holds is
\* the fallback.
ClassifierCtxDoneMutantDropsReply ==
    /\ pc = "wait"
    /\ done["ctx"]
    /\ reply' = NoMsg
    /\ log' = log \o CtxDoneLog
    /\ pc' = "cancel"
    /\ UNCHANGED <<s, placed, run, done, result, co, task, sup, cur, other, written>>

ClassifierCtxDone ==
    /\ pc = "wait"
    /\ done["ctx"]
    /\ reply' = cur
    /\ log' = log \o CtxDoneLog
    /\ pc' = "cancel"
    /\ UNCHANGED <<s, placed, run, done, result, co, task, sup, cur, other, written>>

\* cancel() after the select: notify lookupInServers to quit.
ServeCancel ==
    /\ pc = "cancel"
    /\ done' = Cancel("ctx")
    /\ pc' = "write"
    /\ UNCHANGED <<s, placed, run, result, co, task, sup, cur, other, reply, written, log>>

\* if reply != nil { reply.Compress = true } else { reply.SetReply(req) };
\* _ = w.WriteMsg(reply)
ServeWrite ==
    /\ pc = "write"
    /\ reply' = IF reply # NoMsg THEN [reply EXCEPT !.Compress = TRUE] ELSE SetReply
    /\ written' = Append(written, reply')
    /\ pc' = "done"
    /\ UNCHANGED <<s, placed, run, done, result, co, task, sup, cur, other, log>>

\* ---------------------------------------------------------------------
\* The supervisory goroutine: <-uctx.Done(); <-tctx.Done(); cancel()
\* ---------------------------------------------------------------------

SupervisorWaitUMutantSkipsTrusted ==
    /\ sup = "waitU"
    /\ done["uctx"]
    /\ sup' = "cancel"
    /\ UNCHANGED <<s, placed, run, pc, done, result, co, task, cur, other, reply, written, log>>

SupervisorWaitU ==
    /\ sup = "waitU"
    /\ done["uctx"]
    /\ sup' = "waitT"
    /\ UNCHANGED <<s, placed, run, pc, done, result, co, task, cur, other, reply, written, log>>

SupervisorWaitT ==
    /\ sup = "waitT"
    /\ done["tctx"]
    /\ sup' = "cancel"
    /\ UNCHANGED <<s, placed, run, pc, done, result, co, task, cur, other, reply, written, log>>

SupervisorCancel ==
    /\ sup = "cancel"
    /\ done' = Cancel("ctx")
    /\ sup' = "done"
    /\ UNCHANGED <<s, placed, run, pc, result, co, task, cur, other, reply, written, log>>

\* ---------------------------------------------------------------------
\* lookupInServers
\* ---------------------------------------------------------------------

\* defer cancel(); if len(servers) == 0 { return }; queryNext seeded.
LookupInServersEntryMutantNoCancel(c) ==
    /\ co[c].pc = "entry"
    /\ IF Servers(c) = 0
       THEN co' = [co EXCEPT ![c].pc = "ret"]
       ELSE co' = [co EXCEPT ![c].pc = "loop", ![c].queryNext = 1]
    /\ UNCHANGED <<s, placed, run, pc, done, result, task, sup, cur, other, reply, written, log>>

LookupInServersEntry(c) ==
    /\ co[c].pc = "entry"
    /\ IF Servers(c) = 0
       THEN /\ done' = Cancel(CtxOf(c))
            /\ co' = [co EXCEPT ![c].pc = "ret"]
       ELSE /\ co' = [co EXCEPT ![c].pc = "loop", ![c].queryNext = 1]
            /\ UNCHANGED done
    /\ UNCHANGED <<s, placed, run, pc, result, task, sup, cur, other, reply, written, log>>

\* wg.Add(1); go doLookup(server), and the end of the range loop after
\* the last server.
AdmitMutantReverseOrder(c) ==
    /\ task' = [task EXCEPT ![c][Servers(c) - co[c].i] = "lookup"]
    /\ co[c].i < Servers(c)

Admit(c) ==
    /\ task' = [task EXCEPT ![c][co[c].i + 1] = "lookup"]
    /\ co[c].i < Servers(c)

\* case <-ctx.Done(): break LOOP
LoopCtxDone(c) ==
    /\ co[c].pc = "loop"
    /\ done[CtxOf(c)]
    /\ co' = [co EXCEPT ![c].pc = "wait"]
    /\ UNCHANGED <<s, placed, run, pc, done, result, task, sup, cur, other, reply, written, log>>

\* case <-queryNext:
LoopQueryNext(c) ==
    /\ co[c].pc = "loop"
    /\ co[c].queryNext > 0
    /\ Admit(c)
    /\ co' = [co EXCEPT ![c].queryNext = @ - 1, ![c].i = @ + 1,
                        ![c].pc = IF co[c].i + 1 = Servers(c) THEN "wait" ELSE "loop"]
    /\ UNCHANGED <<s, placed, run, pc, done, result, sup, cur, other, reply, written, log>>

\* case <-ticker.C:
LoopTicker(c) ==
    /\ co[c].pc = "loop"
    /\ Admit(c)
    /\ co' = [co EXCEPT ![c].i = @ + 1,
                        ![c].pc = IF co[c].i + 1 = Servers(c) THEN "wait" ELSE "loop"]
    /\ UNCHANGED <<s, placed, run, pc, done, result, sup, cur, other, reply, written, log>>

\* wg.Wait() returns, then the deferred cancel() runs.
LookupInServersReturn(c) ==
    /\ co[c].pc = "wait"
    /\ \A k \in 1..Servers(c) : task[c][k] \in {"none", "done"}
    /\ done' = Cancel(CtxOf(c))
    /\ co' = [co EXCEPT ![c].pc = "ret"]
    /\ UNCHANGED <<s, placed, run, pc, result, task, sup, cur, other, reply, written, log>>

\* ---------------------------------------------------------------------
\* doLookup
\* ---------------------------------------------------------------------

\* lookup(...) returns an error.
LookupFail(c, k) ==
    /\ task[c][k] = "lookup"
    /\ task' = [task EXCEPT ![c][k] = "failed"]
    /\ UNCHANGED <<s, placed, run, pc, done, result, co, sup, cur, other, reply, written, log>>

\* queryNext <- struct{}{} (a blocking send on a channel of capacity
\* len(servers)), then return and the deferred wg.Done().
GrantPermit(c, k) ==
    /\ task[c][k] = "failed"
    /\ co[c].queryNext < Servers(c)
    /\ co' = [co EXCEPT ![c].queryNext = @ + 1]
    /\ task' = [task EXCEPT ![c][k] = "done"]
    /\ UNCHANGED <<s, placed, run, pc, done, result, sup, cur, other, reply, written, log>>

\* lookup(...) returns a reply; select { case result <- reply: default: }
LookupSucceed(c, k) ==
    /\ task[c][k] = "lookup"
    /\ \E ans \in UpstreamAnswers :
          result' = [result EXCEPT ![c] =
                        IF @ = <<>> THEN <<UpstreamMsg(c, ans)>> ELSE @]
    /\ placed' = [placed EXCEPT ![c] = IF result[c] = <<>> THEN @ + 1 ELSE @]
    /\ task' = [task EXCEPT ![c][k] = "sent"]
    /\ UNCHANGED <<s, run, pc, done, co, sup, cur, other, reply, written, log>>

\* cancel() at the end of doLookup, then the deferred wg.Done().
DoLookupCancel(c, k) ==
    /\ task[c][k] = "sent"
    /\ done' = Cancel(CtxOf(c))
    /\ task' = [task EXCEPT ![c][k] = "done"]
    /\ UNCHANGED <<s, placed, run, pc, result, co, sup, cur, other, reply, written, log>>

\* ---------------------------------------------------------------------
\* Specifications
\* ---------------------------------------------------------------------

ServeStep ==
    \/ ServeBlacklisted
    \/ ServeSetup
    \/ ServeStartUntrusted
    \/ ServeSkipUntrusted
    \/ \E c \in Classes : ServeRecv(c)
    \/ ServeCtxDone
    \/ ClassifierRecv
    \/ ClassifierCtxDone
    \/ ServeCancel
    \/ ServeWrite

SupervisorStep ==
    \/ SupervisorWaitU
    \/ SupervisorWaitT
    \/ SupervisorCancel

CoordinatorStep(c) ==
    \/ LookupInServersEntry(c)
    \/ LoopCtxDone(c)
    \/ LoopQueryNext(c)
    \/ LoopTicker(c)
    \/ LookupInServersReturn(c)

TaskStep(c, k) ==
    \/ LookupFail(c, k)
    \/ GrantPermit(c, k)
    \/ LookupSucceed(c, k)
    \/ DoLookupCancel(c, k)

Next ==
    \/ ServeBlacklisted
    \/ ServeSetup
    \/ ServeStartUntrusted
    \/ ServeSkipUntrusted
    \/ \E c \in Classes : ServeRecv(c)
    \/ ServeCtxDone
    \/ ClassifierRecv
    \/ ClassifierCtxDone
    \/ ServeCancel
    \/ ServeWrite
    \/ SupervisorWaitU
    \/ SupervisorWaitT
    \/ SupervisorCancel
    \/ \E c \in Classes : LookupInServersEntry(c)
    \/ \E c \in Classes : LoopCtxDone(c)
    \/ \E c \in Classes : LoopQueryNext(c)
    \/ \E c \in Classes : LoopTicker(c)
    \/ \E c \in Classes : LookupInServersReturn(c)
    \/ \E c \in Classes : \E k \in 1..MaxList : k <= Servers(c) /\ LookupFail(c, k)
    \/ \E c \in Classes : \E k \in 1..MaxList : k <= Servers(c) /\ GrantPermit(c, k)
    \/ \E c \in Classes : \E k \in 1..MaxList : k <= Servers(c) /\ LookupSucceed(c, k)
    \/ \E c \in Classes : \E k \in 1..MaxList : k <= Servers(c) /\ DoLookupCancel(c, k)

Spec == Init /\ [][Next]_vars

\* Every goroutine that can take a step eventually takes one, the ticker
\* keeps ticking and every lookup call returns.
Fairness ==
    /\ WF_vars(ServeStep)
    /\ WF_vars(SupervisorStep)
    /\ \A c \in Classes : WF_vars(CoordinatorStep(c))
    /\ \A c \in Classes : \A k \in 1..MaxList :
          WF_vars(k <= Servers(c) /\ TaskStep(c, k))

FairSpec == Init /\ [][Next]_vars /\ Fairness

\* ---------------------------------------------------------------------
\* Properties
\* ---------------------------------------------------------------------

\* Serve is past its select and the classifier: it holds its final reply.
Decided == pc \in {"cancel", "write", "done"}

Started(c) == {k \in 1..Servers(c) : task[c][k] # "none"}

\* The i-th history entry is the classification of an address answered
\* by class c.
Classified(i, c) ==
    /\ i \in 1..Len(log)
    /\ log[i].ev = "recv"
    /\ log[i].from = c
    /\ log[i].classified

\* The i-th history entry was accepted at once: nothing was received and no
\* context was waited for after it, and its reply is the final reply.
AcceptedAtOnce(i, c) ==
    /\ i = Len(log)
    /\ Decided
    /\ reply.from = c
    /\ scanAnswer(reply.Answer, 1) = log[i].ip

\* C1: WriteMsg is invoked at most once in every reachable state, and
\* exactly once when Serve has returned (blacklist path and racing path).
C1_ExactlyOneWrite ==
    /\ Len(written) <= 1
    /\ pc = "done" => Len(written) = 1

C1_Witness ==
    /\ pc = "done"
    /\ ~s.DomainBlacklist
    /\ Len(written) = 1
    /\ written[1].from \in Classes

\* C2: under fair scheduling, with every lookup returning, every Serve
\* invocation eventually has written its reply and returned, its root
\* context canceled (the blacklist path creates no context).
C2_ServeTerminates ==
    <>(/\ pc = "done"
       /\ Len(written) = 1
       /\ s.DomainBlacklist \/ done["ctx"])

\* C3: on a domain-blacklist hit the reply written has zero answer records
\* and no lookup against any resolver is ever started.
C3_BlacklistNoUpstream ==
    s.DomainBlacklist =>
        /\ \A c \in Classes : Started(c) = {} /\ co[c].pc = "idle"
        /\ \A i \in 1..Len(written) : written[i].Answer = <<>>
        /\ pc = "done" => Len(written) = 1

C3_Witness ==
    /\ s.DomainBlacklist
    /\ s.TrustedServers > 0
    /\ s.UntrustedServers > 0
    /\ pc = "done"
    /\ written = <<SetReply>>

\* C4: for a polluted, non-blacklisted name the untrusted race is never
\* started and no untrusted lookup is issued, uctx is canceled as soon as
\* Serve has passed the branch, and the trusted race is started.
C4_PollutedSkipsUntrusted ==
    (s.DomainPolluted /\ ~s.DomainBlacklist) =>
        /\ Started("untrusted") = {}
        /\ co["untrusted"].pc = "idle"
        /\ pc \notin {"start", "spawn"} => done["uctx"]
        /\ pc # "start" => co["trusted"].pc # "idle"

C4_Witness ==
    /\ s.DomainPolluted
    /\ ~s.DomainBlacklist
    /\ s.UntrustedServers > 0
    /\ pc = "done"
    /\ Started("trusted") # {}
    /\ written[1].from = "trusted"

\* C5: the reply handed to the transport is never nil, and Serve takes the
\* path that synthesizes the empty reply (its select returns on ctx.Done
\* with reply still nil) only when no successful upstream reply is sitting
\* in a result channel.
C5_SynthesizedOnlyOnTotalFailure ==
    /\ [](\A i \in 1..Len(written) : written[i] # NoMsg)
    /\ [][(pc = "select" /\ pc' = "cancel" /\ reply' = NoMsg)
            => (result["trusted"] = <<>> /\ result["untrusted"] = <<>>)]_vars

\* C6: with both resolver lists empty and the name not blacklisted, Serve
\* eventually returns having written the empty reply, the started
\* coordinators returned, the root canceled by the supervisor, and no
\* lookup issued.
C6_EmptyListsServed ==
    (s.TrustedServers = 0 /\ s.UntrustedServers = 0 /\ ~s.DomainBlacklist)
        ~> (/\ pc = "done"
            /\ written = <<SetReply>>
            /\ sup = "done"
            /\ done["ctx"]
            /\ co["trusted"].pc = "ret"
            /\ s.DomainPolluted \/ co["untrusted"].pc = "ret"
            /\ \A c \in Classes : Started(c) = {})

C6_Witness ==
    /\ s.TrustedServers = 0
    /\ s.UntrustedServers = 0
    /\ ~s.DomainBlacklist
    /\ ~s.DomainPolluted
    /\ pc = "done"
    /\ written = <<SetReply>>

\* C7: after a suspect untrusted first reply, a trusted reply that is
\* received becomes the final reply, and the classifier falls back to the
\* untrusted reply only when no trusted reply has arrived in the trusted
\* channel by the time the root context is done.
C7_TrustedReplyWins ==
    /\ []((/\ pc = "done"
           /\ Len(log) >= 2
           /\ Classified(1, "untrusted")
           /\ log[2].ev = "recv")
          => written[1].from = "trusted")
    /\ [][(/\ pc = "wait"
           /\ other = "trusted"
           /\ cur.from = "untrusted"
           /\ pc' = "cancel"
           /\ reply' = cur)
          => result["trusted"] = <<>>]_vars

\* C8: a classified untrusted reply is accepted at once exactly when its
\* address is not in the IP blacklist and is in the domestic CIDR set;
\* otherwise the classifier goes on to its select.
C8_UntrustedAcceptIff ==
    \A i \in 1..Len(log) :
        Classified(i, "untrusted") =>
            IF log[i].ip \notin IPBlacklist /\ log[i].ip \in ChinaCIDR
            THEN AcceptedAtOnce(i, "untrusted")
            ELSE i = Len(log) => pc = "wait"

C8_Witness ==
    /\ pc = "done"
    /\ Classified(1, "untrusted")
    /\ log[1].ip = "36.0.0.1"
    /\ Len(log) = 1
    /\ result["trusted"] # <<>>
    /\ written[1].from = "untrusted"

\* C9: with Bidirectional off, a classified trusted reply whose address is
\* not blacklisted is accepted at once, at either hop, and ChinaCIDR is
\* not consulted for it.
C9_TrustedAcceptedWhenNotBidirectional ==
    ~s.Bidirectional =>
        \A i \in 1..Len(log) :
            (Classified(i, "trusted") /\ log[i].ip \notin IPBlacklist) =>
                /\ AcceptedAtOnce(i, "trusted")
                /\ log[i].lookups = <<"IPBlacklist">>

C9_Witness ==
    /\ ~s.Bidirectional
    /\ pc = "done"
    /\ Len(log) = 2
    /\ Classified(1, "untrusted")
    /\ Classified(2, "trusted")
    /\ log[2].ip = "36.0.0.1"
    /\ written[1].from = "trusted"

\* C10: with Bidirectional on, a trusted first reply with a domestic,
\* non-blacklisted address is not the final reply before an untrusted
\* reply was received or the root context was found done; one with a
\* foreign, non-blacklisted address is accepted at once.
C10_BidirectionalWaits ==
    (s.Bidirectional /\ Classified(1, "trusted") /\ log[1].ip \notin IPBlacklist) =>
        IF log[1].ip \in ChinaCIDR
        THEN /\ Len(log) = 1 => (pc = "wait" /\ other = "untrusted")
             /\ Decided =>
                  /\ Len(log) >= 2
                  /\ \/ log[2].ev = "recv" /\ log[2].from = "untrusted"
                     \/ log[2].ev = "ctxdone" /\ done["ctx"]
        ELSE AcceptedAtOnce(1, "trusted")

C10_Witness ==
    /\ s.Bidirectional
    /\ pc = "done"
    /\ Classified(1, "trusted")
    /\ log[1].ip = "36.0.0.1"
    /\ Len(log) = 2
    /\ log[2].ev = "recv"
    /\ log[2].from = "untrusted"
    /\ written[1].from = "untrusted"

\* C11: when the first classified reply is suspect and the other class
\* never placed a reply on its channel, the reply written is that first
\* reply (marked compressible), not the synthesized empty reply.
C11_TimeoutFallback ==
    \A c \in Classes :
        (/\ pc = "done"
         /\ Classified(1, c)
         /\ log[1].wait
         /\ placed[OtherClass(c)] = 0)
        => /\ Len(log) = 2
           /\ log[2].ev = "ctxdone"
           /\ written = <<[cur EXCEPT !.Compress = TRUE]>>
           /\ written[1].from = c
           /\ scanAnswer(written[1].Answer, 1) = log[1].ip

C11_Witness ==
    /\ pc = "done"
    /\ Classified(1, "untrusted")
    /\ log[1].ip = "1.2.3.4"
    /\ s.TrustedServers > 0
    /\ \A k \in 1..s.TrustedServers : task["trusted"][k] = "done"
    /\ placed["trusted"] = 0
    /\ written[1].from = "untrusted"

\* This step is the first successful lookup of class c, by resolver k.
FirstSuccess(c, k) ==
    /\ k \in 1..Servers(c)
    /\ task[c][k] = "lookup"
    /\ task'[c][k] = "sent"
    /\ placed[c] = 0
    /\ placed'[c] = 1

\* The lookups of class c that have been started and have not returned.
InFlight(c) == {j \in 1..Servers(c) : task[c][j] = "lookup"}

\* C12 (as claimed): when the k-th resolver is the first to succeed, at
\* most k+1 queries of its coordinator are outstanding.
C12_EscalationBoundKPlusOne ==
    [][\A c \in Classes : \A k \in 1..MaxList :
          FirstSuccess(c, k) => Cardinality(InFlight(c)) <= k + 1]_vars

\* C12 (amended): when the k-th resolver of the list is the first to
\* succeed, the queries admitted so far are those of the first m resolvers
\* of the list for some m with k <= m <= len(servers).
C12_EscalationBoundListLength ==
    [][\A c \in Classes : \A k \in 1..MaxList :
          FirstSuccess(c, k) =>
              /\ k <= co[c].i
              /\ co[c].i <= Servers(c)
              /\ Started(c) = 1..co[c].i]_vars

C12_Witness ==
    \E c \in Classes :
        /\ Servers(c) = 3
        /\ task[c] = <<"sent", "lookup", "lookup">>
        /\ placed[c] = 1
        /\ ~done[CtxOf(c)]

\* C13: per request and per class at most one reply is ever placed on the
\* result channel, also after the first one has been received.
C13_AtMostOnePlaced == \A c \in Classes : placed[c] <= 1

\* C14: under fair scheduling every started lookupInServers eventually
\* returns, and when it has returned none of its doLookup tasks is running.
C14_CoordinatorJoin ==
    /\ [](\A c \in Classes :
            co[c].pc = "ret" =>
                \A k \in 1..Servers(c) : task[c][k] \in {"none", "done"})
    /\ \A c \in Classes : (co[c].pc = "entry") ~> (co[c].pc = "ret")

\* C15: granting a permit never blocks: the permits in queryNext together
\* with those being sent by failed lookups never exceed its capacity
\* len(servers).
C15_GrantNeverBlocks ==
    \A c \in Classes :
        co[c].queryNext
          + Cardinality({k \in 1..Servers(c) : task[c][k] = "failed"})
          <= Servers(c)

\* C16: once the context of a coordinator is canceled, its loop admits no
\* further resolver.
C16_NoAdmissionAfterCancel ==
    [][\A c \in Classes : done[CtxOf(c)] => co'[c].i = co[c].i]_vars

\* ---------------------------------------------------------------------
\* processReply on its own: every answer section, either process function,
\* with and without a fallback channel
\* ---------------------------------------------------------------------

\* The arguments of one call: rep (held in cur), process (the function of
\* rep's class), other (nil or the other class's channel, empty or holding
\* a reply) and ctx (canceled or not).
InitReply ==
    /\ s \in [DomainBlacklist : {FALSE}, DomainPolluted : {FALSE},
              Bidirectional : BOOLEAN,
              TrustedServers : {0}, UntrustedServers : {0}]
    /\ pc = "processReply"
    /\ done \in {[x \in Contexts |-> FALSE], [x \in Contexts |-> TRUE]}
    /\ cur \in {UpstreamMsg(c, ans) : c \in Classes, ans \in AnswerSections}
    /\ other \in {"nil", OtherClass(cur.from)}
    /\ result \in [Classes -> {<<>>} \cup
                      {<<UpstreamMsg(c, ans)>> : c \in Classes, ans \in UpstreamAnswers}]
    /\ \A c \in Classes :
          /\ c # other => result[c] = <<>>
          /\ result[c] # <<>> => Head(result[c]).from = c
    /\ co = [c \in Classes |-> [pc |-> "idle", i |-> 0, queryNext |-> 0]]
    /\ task = [c \in Classes |-> [k \in 1..Servers(c) |-> "none"]]
    /\ sup = "idle"
    /\ reply = NoMsg
    /\ written = <<>>
    /\ log = <<>>
    /\ placed = [c \in Classes |-> 0]
    /\ run = NotRunning

\* processReply(ctx, logger, rep, other, process) up to its return or to
\* the select of the process function.
ProcessReplyCall ==
    /\ pc = "processReply"
    /\ log' = log \o RecvLog(cur.from, cur, other)
    /\ IF Classify(cur.from, cur).wait
       THEN /\ pc' = "processSelect"
            /\ UNCHANGED reply
       ELSE /\ reply' = cur
            /\ pc' = "processReturn"
    /\ UNCHANGED <<s, placed, run, done, result, co, task, sup, cur, other, written>>

\* case rep := <-other of the process function's select: the nested
\* processReply with a nil channel.
ProcessSelectRecv ==
    /\ pc = "processSelect"
    /\ other # "nil"
    /\ result[other] # <<>>
    /\ LET rep == Head(result[other])
       IN  /\ result' = [result EXCEPT ![other] = Tail(@)]
           /\ log' = log \o RecvLog(other, rep, "nil")
           /\ IF Classify(other, rep).wait
              THEN /\ cur' = rep
                   /\ other' = "nil"
                   /\ pc' = "processSelect"
                   /\ UNCHANGED reply
              ELSE /\ reply' = rep
                   /\ pc' = "processReturn"
                   /\ UNCHANGED <<cur, other>>
    /\ UNCHANGED <<s, placed, run, done, co, task, sup, written>>

\* case <-ctx.Done() of the process function's select.
ProcessSelectCtxDone ==
    /\ pc = "processSelect"
    /\ done["ctx"]
    /\ reply' = cur
    /\ log' = log \o CtxDoneLog
    /\ pc' = "processReturn"
    /\ UNCHANGED <<s, placed, run, done, result, co, task, sup, cur, other, written>>

NextReply ==
    \/ ProcessReplyCall
    \/ ProcessSelectRecv
    \/ ProcessSelectCtxDone

ReplySpec == InitReply /\ [][NextReply]_vars

\* ---------------------------------------------------------------------
\* runUntilCanceled (cmd/chinadns/main.go); durations in milliseconds
\* ---------------------------------------------------------------------

\* minGap := time.Millisecond * 100
minGap == 100

\* maxGap := time.Second * 16
maxGap == 16000

\* What one call of f does: return nil, return an error, or panic.
Outcomes == {"nil", "error", "panic"}

\* runUntilCanceled(ctx, f) is called: gap := minGap.  run.wait is the
\* duration of the last time.After that fired, run.prev the one before it
\* (0: none yet); run.err is the outcome of the last call of f.
InitRun ==
    /\ s \in [DomainBlacklist : {FALSE}, DomainPolluted : {FALSE},
              Bidirectional : {FALSE},
              TrustedServers : {0}, UntrustedServers : {0}]
    /\ pc = "start"
    /\ done = [x \in Contexts |-> FALSE]
    /\ result = [c \in Classes |-> <<>>]
    /\ co = [c \in Classes |-> [pc |-> "idle", i |-> 0, queryNext |-> 0]]
    /\ task = [c \in Classes |-> [k \in 1..Servers(c) |-> "none"]]
    /\ sup = "idle"
    /\ cur = NoMsg
    /\ other = "nil"
    /\ reply = NoMsg
    /\ written = <<>>
    /\ log = <<>>
    /\ placed = [c \in Classes |-> 0]
    /\ run = [pc |-> "call", gap |-> minGap, err |-> "none", wait |-> 0, prev |-> 0]

\* The owner of ctx cancels it.
RunCtxCancel ==
    /\ run.pc # "idle"
    /\ ~done["ctx"]
    /\ done' = Cancel("ctx")
    /\ UNCHANGED <<s, placed, run, pc, result, co, task, sup, cur, other, reply, written, log>>

\* The closure around f: a panic is recovered and logged, an error is
\* logged, and nil resets the gap.
RunCall ==
    /\ run.pc = "call"
    /\ \E o \in Outcomes :
          run' = [run EXCEPT !.err = o,
                             !.gap = IF o = "nil" THEN minGap ELSE @,
                             !.pc = "select"]
    /\ UNCHANGED <<s, placed, pc, done, result, co, task, sup, cur, other, reply, written, log>>

\* case <-ctx.Done(): return
RunCtxDone ==
    /\ run.pc = "select"
    /\ done["ctx"]
    /\ run' = [run EXCEPT !.pc = "return"]
    /\ UNCHANGED <<s, placed, pc, done, result, co, task, sup, cur, other, reply, written, log>>

\* case <-time.After(gap): then gap = gap * 2, capped at maxGap.
RunTimeAfterMutantNoCap ==
    /\ run.pc = "select"
    /\ run' = [run EXCEPT !.wait = run.gap,
                          !.prev = run.wait,
                          !.gap = run.gap * 2,
                          !.pc = "call"]
    /\ UNCHANGED <<s, placed, pc, done, result, co, task, sup, cur, other, reply, written, log>>

RunTimeAfter ==
    /\ run.pc = "select"
    /\ run' = [run EXCEPT !.wait = run.gap,
                          !.prev = run.wait,
                          !.gap = IF run.gap * 2 > maxGap THEN maxGap ELSE run.gap * 2,
                          !.pc = "call"]
    /\ UNCHANGED <<s, placed, pc, done, result, co, task, sup, cur, other, reply, written, log>>

NextRun ==
    \/ RunCtxCancel
    \/ RunCall
    \/ RunCtxDone
    \/ RunTimeAfter

RunSpec == InitRun /\ [][NextRun]_vars

\* The history entries that are receptions of a reply.
Recvs == {i \in 1..Len(log) : log[i].ev = "recv"}

\* C17: per request at most two replies are received by Serve and the
\* classifier, at most one from each class; the second is classified with
\* a nil fallback channel; when its verdict is suspect the classifier holds
\* the second reply, waits for the root context only and returns it as the
\* final reply.
C17_DepthTwo ==
    /\ [](/\ Recvs \subseteq {1, 2}
          /\ Recvs = {1, 2} =>
                /\ log[1].from # log[2].from
                /\ log[1].other = log[2].from
                /\ log[2].other = "nil"
                /\ pc = "wait" => (other = "nil" /\ cur.from = log[2].from)
                /\ Decided =>
                      /\ reply.from = log[2].from
                      /\ scanAnswer(reply.Answer, 1) = log[2].ip)
    /\ (pc = "wait" /\ other = "nil") ~> (Decided /\ reply = cur)

C17_Witness ==
    /\ pc = "done"
    /\ Len(log) = 3
    /\ Classified(1, "untrusted")
    /\ Classified(2, "trusted")
    /\ log[2].wait
    /\ log[3].ev = "ctxdone"
    /\ written[1].from = "trusted"

\* The answer section is zero or more CNAME records followed by an
\* address record (of any records after it).
CnameChainThenAddress(ans) ==
    \E n \in 1..Len(ans) :
        /\ ans[n].rrtype \in {"A", "AAAA"}
        /\ \A j \in 1..(n - 1) : ans[j].rrtype = "CNAME"

\* The first record of the section that is not a CNAME record.
FirstNonCname(ans) ==
    ans[CHOOSE n \in 1..Len(ans) :
            /\ ans[n].rrtype # "CNAME"
            /\ \A j \in 1..(n - 1) : ans[j].rrtype = "CNAME"]

\* C18: processReply applies the trust rule iff the answer section is zero
\* or more CNAME records followed by an address record, and then to that
\* address only, starting with the IP blacklist; for every other section
\* it returns the reply unmodified at once: no blacklist or CIDR lookup, no
\* select on the other channel, nothing taken from it.
C18_ProcessReplyShape ==
    Len(log) = 1 =>
        LET ans == cur.Answer
        IN  /\ log[1].ev = "recv"
            /\ log[1].classified <=> CnameChainThenAddress(ans)
            /\ CnameChainThenAddress(ans) =>
                  /\ log[1].ip = FirstNonCname(ans).ip
                  /\ log[1].ip \in IPs
                  /\ Len(log[1].lookups) >= 1
                  /\ log[1].lookups[1] = "IPBlacklist"
                  /\ log[1].ip \in IPBlacklist => log[1].wait
            /\ ~CnameChainThenAddress(ans) =>
                  /\ log[1].lookups = <<>>
                  /\ ~log[1].wait
                  /\ pc = "processReturn"
                  /\ reply = cur
                  /\ \A c \in Classes : result[c] # <<>> => other = c

C18_Witness ==
    /\ pc = "processReturn"
    /\ Len(log) = 1
    /\ cur.Answer = <<CNAME, MX, A("36.0.0.1")>>
    /\ other # "nil"
    /\ result[other] # <<>>
    /\ reply = cur

\* C19: until Serve's own cancel() the root context is done only by the
\* supervisor, and the supervisor cancels it only in a state where the
\* untrusted and the trusted context are both done already; a classifier
\* waiting for the other class is therefore never released while that
\* class's context is live.
C19_SupervisorInvariant ==
    /\ []((pc \notin {"write", "done"} /\ done["ctx"]) => sup = "done")
    /\ [](sup \in {"cancel", "done"} => (done["uctx"] /\ done["tctx"]))
    /\ [][(~done["ctx"] /\ done'["ctx"] /\ pc' = pc)
            => (done["uctx"] /\ done["tctx"] /\ sup = "cancel")]_vars

C19_Witness ==
    /\ pc = "wait"
    /\ other = "trusted"
    /\ result["trusted"] = <<>>
    /\ sup = "done"
    /\ done["ctx"]
    /\ co["trusted"].pc = "ret"
    /\ co["untrusted"].pc # "ret"

\* C20: an error or a panic of the task does not end runUntilCanceled, which
\* returns only with its context canceled; every wait between two runs is
\* within [minGap, maxGap], is minGap after a run that returned nil, and
\* after a failing run is twice the wait before it, capped at maxGap
\* (minGap when there was no wait before it).
C20_BackoffBounds ==
    /\ run.pc = "return" => done["ctx"]
    /\ run.gap \in minGap..maxGap
    /\ run.wait # 0 =>
          /\ run.wait \in minGap..maxGap
          /\ run.pc = "call" =>
                /\ run.err = "nil" => run.wait = minGap
                /\ run.err \in {"error", "panic"} =>
                      run.wait = IF run.prev = 0 THEN minGap
                                 ELSE IF 2 * run.prev > maxGap THEN maxGap
                                 ELSE 2 * run.prev

C20_Witness ==
    /\ run.pc = "call"
    /\ run.err = "panic"
    /\ run.prev = 12800
    /\ run.wait = maxGap
    /\ ~done["ctx"]

====
